---- MODULE Spec2Model ----
(***************************************************************************)
(* A model of run.py, the @plutor_wifi bot: one process run of main()      *)
(* (speed tests, save_data, generate_graph, tweet_history) over the        *)
(* tinydb store, and sequences of such runs.                               *)
(*                                                                         *)
(* Conventions.  Time is in seconds, as time.time().  A result tuple is a  *)
(* record: index [0] is field down, [1] is up, [2] is ping, [3] is         *)
(* retrans; an index holding None is an absent field.  A function that may *)
(* return None returns a sequence: << >> is None, <<t>> is the tuple t.    *)
(* Float arithmetic is modelled exactly, a quotient being a fraction       *)
(* [n, d].  auth() is taken to have found its tokens in cfg.               *)
(***************************************************************************)
EXTENDS Integers, Sequences, FiniteSets, TLC

VARIABLES
  db,        \* the records of db.json, in insertion order
  NOW,       \* time.time() of the running process
  args,      \* the parsed command-line flags
  hist,      \* self.hist
  pc,        \* where main() stands
  do_tweet,  \* main's do_tweet
  rv,        \* run_speedtests' rv
  tries,     \* run_fastcom's tries (its initial value while run_fastcom is not active)
  cp,        \* the CompletedProcess of the last subprocess.run
  ran,       \* the commands this run has invoked
  plot,      \* what generate_graph saved in plot.png: << >> or <<chart>>
  tweets,    \* the statuses posted by api.update_status, oldest first
  runs       \* how many process runs have started

vars == <<db, NOW, args, hist, pc, do_tweet, rv, tries, cp, ran, plot, tweets, runs>>

-----------------------------------------------------------------------------
(* Bounds of the model *)

MaxHist == 2
MaxRuns == 2

\* time.time() of the first run
StartTime == 30 * 60 * 60
\* ages of the stored records at StartTime
Ages == {30 * 60, 60 * 60, 3 * 60 * 60, 4 * 60 * 60, 8 * 60 * 60, 25 * 60 * 60}
\* time between two runs
Gaps == {30 * 60, 8 * 60 * 60}

-----------------------------------------------------------------------------
(* Program constants *)

tries_init == 5
hist_max_age_secs == 24 * 60 * 60
tweet_max_age_secs == 8 * 60 * 60
mlab_max_age_secs == 60 * 60
window == 3 * 60 * 60

Sources == {"speedtest", "fastcom", "mlab", "chromedl"}

None == << >>
Some(t) == <<t>>

-----------------------------------------------------------------------------
(* Exact fractions for Python's float quotients *)

Frac(n, d) == [n |-> n, d |-> d]
FracEq(a, b) == a.n * b.d = b.n * a.d
FracAdd(a, b) == [n |-> a.n * b.d + b.n * a.d, d |-> a.d * b.d]
FracDiv(a, k) == [n |-> a.n, d |-> a.d * k]

RECURSIVE FracSum(_)
FracSum(s) == IF s = << >> THEN Frac(0, 1) ELSE FracAdd(Head(s), FracSum(Tail(s)))

RECURSIVE sum(_)
sum(s) == IF s = << >> THEN 0 ELSE Head(s) + sum(Tail(s))

-----------------------------------------------------------------------------
(* The subprocesses: what the environment can answer.  stdout is the       *)
(* sequence of the labelled numbers the output holds.                      *)

CompletedProcess(cmd, returncode, stdout) ==
  [cmd |-> cmd, returncode |-> returncode, stdout |-> stdout]

no_process == CompletedProcess("none", 0, << >>)

Line(type, val) == [type |-> type, val |-> val]

speedtest_cli == {
  CompletedProcess("speedtest-cli", 1, << >>),
  CompletedProcess("speedtest-cli", 0,
     <<Line("Ping:", 12), Line("Download:", 10), Line("Upload:", 2)>>),
  CompletedProcess("speedtest-cli", 0, << >>) }

fast_cli == {
  CompletedProcess("fast-cli", 1, << >>),
  CompletedProcess("fast-cli", 0, <<Line("NaN bps", 0)>>),
  CompletedProcess("fast-cli", 0, <<Line("Mbps", 30)>>),
  CompletedProcess("fast-cli", 0, << >>) }

ndt7_client == {
  CompletedProcess("ndt7-client", 1, << >>),
  CompletedProcess("ndt7-client", 0,
     <<Line("Download", 20), Line("Upload", 4), Line("MinRTT", 15),
       Line("DownloadRetrans", 0)>>),
  CompletedProcess("ndt7-client", 0, << >>) }

curl == {
  CompletedProcess("curl", 1, << >>),
  CompletedProcess("curl", 0, <<Line("speed_download", 5242880)>>),
  CompletedProcess("curl", 0, << >>) }

has(stdout, type) == \E i \in 1..Len(stdout) : stdout[i].type = type
get(stdout, type) == stdout[CHOOSE i \in 1..Len(stdout) : stdout[i].type = type].val

-----------------------------------------------------------------------------
(* run_ookla *)

RECURSIVE ookla_parse(_, _)
ookla_parse(lines, acc) ==
  IF lines = << >> THEN acc
  ELSE LET l == Head(lines)
           acc1 == CASE l.type = "Download:" -> [acc EXCEPT !.down = l.val]
                     [] l.type = "Upload:"   -> [acc EXCEPT !.up = l.val]
                     [] l.type = "Ping:"     -> [acc EXCEPT !.ping = l.val]
                     [] OTHER                -> acc
       IN ookla_parse(Tail(lines), acc1)

\* run_ookla without its check of the return code
ookla_return_any_exit(p) ==
  Some(ookla_parse(p.stdout, [down |-> -1, up |-> -1, ping |-> -1]))

ookla_return(p) ==
  IF p.returncode # 0 THEN None
  ELSE Some(ookla_parse(p.stdout, [down |-> -1, up |-> -1, ping |-> -1]))

(* run_fastcom *)

\* run_fastcom without its check for 'NaN bps'
fastcom_bad_exit_only(p) == p.returncode # 0

fastcom_bad(p) == p.returncode # 0 \/ has(p.stdout, "NaN bps")

fastcom_raises(p) == p.stdout = << >>

fastcom_return(p) == Some([down |-> p.stdout[1].val])

(* run_mlabndt *)

\* should_mlabndt with >= for >
RECURSIVE should_mlabndt_from_ge(_, _, _, _)
should_mlabndt_from_ge(h, i, now, max_age_secs) ==
  IF i > Len(h) THEN TRUE
  ELSE IF "mlab" \in DOMAIN h[i].data /\ h[i].timestamp >= now - max_age_secs
       THEN FALSE
       ELSE should_mlabndt_from_ge(h, i + 1, now, max_age_secs)

RECURSIVE should_mlabndt_from(_, _, _, _)
should_mlabndt_from(h, i, now, max_age_secs) ==
  IF i > Len(h) THEN TRUE
  ELSE IF "mlab" \in DOMAIN h[i].data /\ h[i].timestamp > now - max_age_secs
       THEN FALSE
       ELSE should_mlabndt_from(h, i + 1, now, max_age_secs)

should_mlabndt(h, now, max_age_secs) == should_mlabndt_from(h, 1, now, max_age_secs)

mlab_keys == {"Download", "Upload", "MinRTT", "DownloadRetrans"}

mlab_raises(p) == p.returncode = 0 /\ \E k \in mlab_keys : ~has(p.stdout, k)

mlab_return(p) ==
  IF p.returncode # 0 THEN None
  ELSE Some([down |-> get(p.stdout, "Download"), up |-> get(p.stdout, "Upload"),
             ping |-> get(p.stdout, "MinRTT"),
             retrans |-> get(p.stdout, "DownloadRetrans")])

(* run_chromedl *)

chromedl_raises(p) == p.returncode = 0 /\ ~has(p.stdout, "speed_download")

chromedl_return(p) ==
  IF p.returncode # 0 THEN None
  ELSE Some([down |-> (get(p.stdout, "speed_download") * 8) \div (1024 * 1024)])

(* run_speedtests: rv[name] = result, when the result is not None *)

put(data, name, result) ==
  IF result = None THEN data
  ELSE [s \in DOMAIN data \cup {name} |-> IF s = name THEN result[1] ELSE data[s]]

no_data == [s \in {} |-> 0]

-----------------------------------------------------------------------------
(* __init__, save_data, tweet_due *)

search(store, now) ==
  SelectSeq(store, LAMBDA rec : rec.timestamp > now - hist_max_age_secs)

row(data, tweeted, now) == [data |-> data, tweeted |-> tweeted, timestamp |-> now]

\* tweet_due with >= for >
RECURSIVE tweet_due_from_ge(_, _, _, _)
tweet_due_from_ge(h, i, now, max_age_secs) ==
  IF i > Len(h) THEN TRUE
  ELSE IF h[i].tweeted /\ h[i].timestamp >= now - max_age_secs
       THEN FALSE
       ELSE tweet_due_from_ge(h, i + 1, now, max_age_secs)

RECURSIVE tweet_due_from(_, _, _, _)
tweet_due_from(h, i, now, max_age_secs) ==
  IF i > Len(h) THEN TRUE
  ELSE IF h[i].tweeted /\ h[i].timestamp > now - max_age_secs
       THEN FALSE
       ELSE tweet_due_from(h, i + 1, now, max_age_secs)

tweet_due(h, now, max_age_secs) == tweet_due_from(h, 1, now, max_age_secs)

\* do_tweet without "and not args.only_test"
main_do_tweet_value_no_only_test(a, h, now) ==
  a.force_tweet \/ tweet_due(h, now, tweet_max_age_secs)

main_do_tweet_value(a, h, now) ==
  (a.force_tweet \/ tweet_due(h, now, tweet_max_age_secs)) /\ ~a.only_test

-----------------------------------------------------------------------------
(* generate_graph *)

\* datetime.datetime.fromtimestamp: local time, here one hour east of UTC
utc_offset == 60 * 60
fromtimestamp(t) == t + utc_offset

field(run, name, f) ==
  IF name \in DOMAIN run.data THEN <<run.data[name][f]>> ELSE << >>

\* ys[0] .. ys[5]
RECURSIVE series(_, _, _)
series(h, name, f) ==
  IF h = << >> THEN << >>
  ELSE field(Head(h), name, f) \o series(Tail(h), name, f)

ys0(h) == series(h, "speedtest", "down")
ys1(h) == series(h, "mlab", "down")
ys2(h) == series(h, "fastcom", "down")
ys3(h) == series(h, "chromedl", "down")
ys4(h) == series(h, "speedtest", "up")
ys5(h) == series(h, "mlab", "up")

run_downs(run) ==
  field(run, "speedtest", "down") \o field(run, "mlab", "down")
    \o field(run, "fastcom", "down") \o field(run, "chromedl", "down")

run_ups(run) == field(run, "speedtest", "up") \o field(run, "mlab", "up")

point(run, vals) ==
  IF Len(vals) > 0
  THEN <<[x |-> fromtimestamp(run.timestamp), y |-> Frac(sum(vals), Len(vals))]>>
  ELSE << >>

\* xs[6], ys[6] before the running average
RECURSIVE avg_down(_)
avg_down(h) ==
  IF h = << >> THEN << >>
  ELSE point(Head(h), run_downs(Head(h))) \o avg_down(Tail(h))

\* xs[7], ys[7] before the running average
RECURSIVE avg_up(_)
avg_up(h) ==
  IF h = << >> THEN << >>
  ELSE point(Head(h), run_ups(Head(h))) \o avg_up(Tail(h))

\* the window's filter with <= for <
window_filter_le(win, x) == SelectSeq(win, LAMBDA e : x - e.x <= window)

window_filter(win, x) == SelectSeq(win, LAMBDA e : x - e.x < window)

ys_of(win) == [i \in 1..Len(win) |-> win[i].y]

RECURSIVE running_average(_, _, _)
running_average(pts, n, win) ==
  IF n > Len(pts) THEN << >>
  ELSE LET win1 == window_filter(Append(win, pts[n]), pts[n].x)
       IN <<FracDiv(FracSum(ys_of(win1)), Len(win1))>>
            \o running_average(pts, n + 1, win1)

filter_none(s) == SelectSeq(s, LAMBDA v : v # 0)

RECURSIVE insert(_, _)
insert(s, v) ==
  IF s = << >> THEN <<v>>
  ELSE IF v <= Head(s) THEN <<v>> \o s
       ELSE <<Head(s)>> \o insert(Tail(s), v)

RECURSIVE sorted(_)
sorted(s) == IF s = << >> THEN << >> ELSE insert(sorted(Tail(s)), Head(s))

\* statistics.median of a non-empty list
median(data) ==
  LET s == sorted(data)
      n == Len(s)
  IN IF n % 2 = 1 THEN Frac(s[(n + 1) \div 2], 1)
     ELSE Frac(s[n \div 2] + s[n \div 2 + 1], 2)

med_down_data(h) == filter_none(ys0(h) \o ys1(h) \o ys2(h))
med_up_data(h) == filter_none(ys3(h) \o ys4(h))

\* statistics.median raises StatisticsError on no data
generate_graph_raises(h) == med_down_data(h) = << >> \/ med_up_data(h) = << >>

chart(h) ==
  LET down == avg_down(h)
      up == avg_up(h)
  IN [xs6 |-> [i \in 1..Len(down) |-> down[i].x],
      ys6 |-> running_average(down, 1, << >>),
      xs7 |-> [i \in 1..Len(up) |-> up[i].x],
      ys7 |-> running_average(up, 1, << >>)]

med_down(h) == median(med_down_data(h))
med_up(h) == median(med_up_data(h))

\* '%.1f' % m as a number of tenths; m is a whole or a half number
format_1f(m) == (10 * m.n) \div m.d

status(h, now) ==
  [at |-> now, down |-> format_1f(med_down(h)), up |-> format_1f(med_up(h))]

-----------------------------------------------------------------------------
(* The stores a first run can find: records of earlier runs in time order, *)
(* each with the data of one source that reports both directions, M-Lab    *)
(* data at most once an hour.                                              *)

stored_sources == {"speedtest", "mlab"}

one_source(name) ==
  IF name = "speedtest"
  THEN put(no_data, name, ookla_return(
         CompletedProcess("speedtest-cli", 0,
           <<Line("Ping:", 12), Line("Download:", 10), Line("Upload:", 2)>>)))
  ELSE put(no_data, name, mlab_return(
         CompletedProcess("ndt7-client", 0,
           <<Line("Download", 20), Line("Upload", 4), Line("MinRTT", 15),
             Line("DownloadRetrans", 0)>>)))

Rows ==
  {row(one_source(name), tweeted, StartTime - age) :
     name \in stored_sources, tweeted \in BOOLEAN, age \in Ages}

is_store(s) ==
  \A i, j \in 1..Len(s) :
    i < j => /\ s[i].timestamp < s[j].timestamp
             /\ ("mlab" \in DOMAIN s[i].data /\ "mlab" \in DOMAIN s[j].data
                   => s[j].timestamp - s[i].timestamp >= mlab_max_age_secs)

Stores == {s \in UNION {[1..k -> Rows] : k \in 0..MaxHist} : is_store(s)}

Args ==
  [force_tweet : BOOLEAN, only_test : BOOLEAN, skip_test : BOOLEAN, dry_run : BOOLEAN]

-----------------------------------------------------------------------------
(* One process run *)

Init ==
  /\ db \in Stores
  /\ NOW = StartTime
  /\ args \in Args
  /\ hist = search(db, NOW)
  /\ pc = "main"
  /\ do_tweet = FALSE
  /\ rv = no_data
  /\ tries = tries_init
  /\ cp = no_process
  /\ ran = {}
  /\ plot = << >>
  /\ tweets = << >>
  /\ runs = 1

\* main, lines 307-308
main_do_tweet ==
  /\ pc = "main"
  /\ do_tweet' = main_do_tweet_value(args, hist, NOW)
  /\ pc' = IF args.skip_test THEN "report" ELSE "ookla"
  /\ UNCHANGED <<db, NOW, args, hist, rv, tries, cp, ran, plot, tweets, runs>>

run_ookla ==
  /\ pc = "ookla"
  /\ \E p \in speedtest_cli :
       /\ cp' = p
       /\ ran' = ran \cup {p.cmd}
       /\ rv' = put(rv, "speedtest", ookla_return(p))
  /\ pc' = "fastcom"
  /\ UNCHANGED <<db, NOW, args, hist, do_tweet, tries, plot, tweets, runs>>

\* one turn of run_fastcom's loop
run_fastcom ==
  /\ pc = "fastcom"
  /\ tries > 0
  /\ \E p \in fast_cli :
       /\ cp' = p
       /\ ran' = ran \cup {p.cmd}
       /\ IF fastcom_bad(p)
          THEN /\ rv' = rv
               /\ IF tries - 1 > 0
                  THEN pc' = "fastcom" /\ tries' = tries - 1
                  ELSE pc' = "mlab" /\ tries' = tries_init
          ELSE /\ tries' = tries_init
               /\ IF fastcom_raises(p)
                  THEN pc' = "raised" /\ rv' = rv
                  ELSE pc' = "mlab" /\ rv' = put(rv, "fastcom", fastcom_return(p))
  /\ UNCHANGED <<db, NOW, args, hist, do_tweet, plot, tweets, runs>>

run_mlabndt ==
  /\ pc = "mlab"
  /\ IF ~should_mlabndt(hist, NOW, mlab_max_age_secs)
     THEN /\ pc' = "chromedl"
          /\ UNCHANGED <<cp, ran, rv>>
     ELSE \E p \in ndt7_client :
            /\ cp' = p
            /\ ran' = ran \cup {p.cmd}
            /\ IF mlab_raises(p)
               THEN pc' = "raised" /\ rv' = rv
               ELSE pc' = "chromedl" /\ rv' = put(rv, "mlab", mlab_return(p))
  /\ UNCHANGED <<db, NOW, args, hist, do_tweet, tries, plot, tweets, runs>>

run_chromedl ==
  /\ pc = "chromedl"
  /\ \E p \in curl :
       /\ cp' = p
       /\ ran' = ran \cup {p.cmd}
       /\ IF chromedl_raises(p)
          THEN pc' = "raised" /\ rv' = rv
          ELSE pc' = "save" /\ rv' = put(rv, "chromedl", chromedl_return(p))
  /\ UNCHANGED <<db, NOW, args, hist, do_tweet, tries, plot, tweets, runs>>

\* main, lines 310-311, and save_data
save_data ==
  /\ pc = "save"
  /\ IF rv # no_data
     THEN /\ db' = Append(db, row(rv, do_tweet, NOW))
          /\ hist' = Append(hist, row(rv, do_tweet, NOW))
     ELSE UNCHANGED <<db, hist>>
  /\ pc' = "report"
  /\ UNCHANGED <<NOW, args, do_tweet, rv, tries, cp, ran, plot, tweets, runs>>

\* main, lines 313-319, with generate_graph and tweet_history
main_report ==
  /\ pc = "report"
  /\ IF args.dry_run \/ do_tweet
     THEN IF generate_graph_raises(hist)
          THEN pc' = "raised" /\ UNCHANGED <<plot, tweets>>
          ELSE /\ pc' = "done"
               /\ plot' = <<chart(hist)>>
               /\ tweets' = IF args.dry_run THEN tweets
                            ELSE Append(tweets, status(hist, NOW))
     ELSE pc' = "done" /\ UNCHANGED <<plot, tweets>>
  /\ UNCHANGED <<db, NOW, args, hist, do_tweet, rv, tries, cp, ran, runs>>

Next ==
  \/ main_do_tweet
  \/ run_ookla
  \/ run_fastcom
  \/ run_mlabndt
  \/ run_chromedl
  \/ save_data
  \/ main_report

Spec == Init /\ [][Next]_vars

-----------------------------------------------------------------------------
(* Runs one after the other, none with --force_tweet: the scheduled job.   *)

seed_stores ==
  {<< >>, <<row(one_source("speedtest"), FALSE, StartTime - 60 * 60)>>}

InitUnforced == Init /\ db \in seed_stores /\ ~args.force_tweet

\* the next process: main, lines 303-305, and __init__
next_run ==
  /\ pc \in {"done", "raised"}
  /\ runs < MaxRuns
  /\ \E gap \in Gaps, a \in Args :
       /\ ~a.force_tweet
       /\ NOW' = NOW + gap
       /\ args' = a
       /\ hist' = search(db, NOW + gap)
  /\ pc' = "main"
  /\ do_tweet' = FALSE
  /\ rv' = no_data
  /\ tries' = tries_init
  /\ cp' = no_process
  /\ ran' = {}
  /\ runs' = runs + 1
  /\ UNCHANGED <<db, plot, tweets>>

NextUnforced == Next \/ next_run

SpecUnforced == InitUnforced /\ [][NextUnforced]_vars

-----------------------------------------------------------------------------
(* What the claims speak of *)

\* the records __init__ loaded: hist without the row of this run
loaded == SelectSeq(hist, LAMBDA rec : rec.timestamp < NOW)

recent_tweet(h, now, age) ==
  \E i \in 1..Len(h) : h[i].tweeted /\ h[i].timestamp > now - age

recent_mlab(h, now) ==
  \E i \in 1..Len(h) : "mlab" \in DOMAIN h[i].data /\ now - h[i].timestamp < 60 * 60

posted == \E i \in 1..Len(tweets) : tweets[i].at = NOW

lookbacks == {60 * 60, 8 * 60 * 60, 24 * 60 * 60}

source_of(cmd) ==
  CASE cmd = "speedtest-cli" -> "speedtest"
    [] cmd = "fast-cli" -> "fastcom"
    [] cmd = "ndt7-client" -> "mlab"
    [] cmd = "curl" -> "chromedl"
    [] OTHER -> "none"

stage_of(cmd) ==
  CASE cmd = "speedtest-cli" -> "ookla"
    [] cmd = "fast-cli" -> "fastcom"
    [] cmd = "ndt7-client" -> "mlab"
    [] cmd = "curl" -> "chromedl"
    [] OTHER -> "none"

expected_tokens(cmd) ==
  CASE cmd = "speedtest-cli" -> {"Download:", "Upload:", "Ping:"}
    [] cmd = "fast-cli" -> {"Mbps"}
    [] cmd = "ndt7-client" -> {"Download", "Upload", "MinRTT"}
    [] cmd = "curl" -> {"speed_download"}
    [] OTHER -> {}

missing_tokens(p) ==
  /\ p.returncode = 0
  /\ ~has(p.stdout, "NaN bps")
  /\ \E k \in expected_tokens(p.cmd) : ~has(p.stdout, k)

-----------------------------------------------------------------------------
(* C1 *)

\* C1: tweet_due(max_age_secs) is FALSE exactly when the history holds a
\* record with tweeted = true and timestamp > NOW - max_age_secs, for every
\* history reached and every lookback; and main's call of it (no
\* --force_tweet, no --only_test) gives do_tweet that value for the loaded
\* history and the 8 hour lookback.
C1_tweet_due_iff_no_recent_tweet ==
  /\ \A age \in lookbacks :
       tweet_due(hist, NOW, age) <=> ~recent_tweet(hist, NOW, age)
  /\ (pc # "main" /\ ~args.force_tweet /\ ~args.only_test)
       => (do_tweet <=> ~recent_tweet(loaded, NOW, 8 * 60 * 60))

\* tweet_due passed a tweeted record at the edge of the window (exactly 8
\* hours old) and returned False on a later one inside it
C1_witness ==
  /\ pc = "ookla"
  /\ ~args.force_tweet /\ ~args.only_test /\ ~do_tweet
  /\ Len(hist) = 2
  /\ hist[1].tweeted /\ hist[1].timestamp = NOW - 8 * 60 * 60
  /\ hist[2].tweeted /\ hist[2].timestamp > NOW - 8 * 60 * 60

-----------------------------------------------------------------------------
(* C2 *)

all_down(h) == ys0(h) \o ys1(h) \o ys2(h) \o ys3(h)
all_up(h) == ys4(h) \o ys5(h)

\* C2: the posted status gives the median of the download samples of all
\* four sources as its download figure and the median of the upload samples
\* of speedtest and mlab as its upload figure.
C2_medians_of_all_samples ==
  \A i \in 1..Len(tweets) :
    tweets[i].at = NOW =>
      /\ tweets[i].down = format_1f(median(all_down(hist)))
      /\ all_up(hist) # << >> => tweets[i].up = format_1f(median(all_up(hist)))

-----------------------------------------------------------------------------
(* C3 *)

\* C3: a test whose process exits 0 with output that lacks the expected
\* tokens returns None: its source is not in rv and nothing is raised.
C3_missing_tokens_give_no_data ==
  missing_tokens(cp) => (pc # "raised" /\ source_of(cp.cmd) \notin DOMAIN rv)

-----------------------------------------------------------------------------
(* C4 *)

RECURSIVE sum_over(_, _)
sum_over(pts, idx) ==
  IF idx = {} THEN Frac(0, 1)
  ELSE LET m == CHOOSE k \in idx : TRUE
       IN FracAdd(pts[m].y, sum_over(pts, idx \ {m}))

mean_over(pts, idx) == FracDiv(sum_over(pts, idx), Cardinality(idx))

\* t - 3h < time <= t
trailing_open(pts, n) ==
  {m \in 1..Len(pts) : pts[n].x - 3 * 60 * 60 < pts[m].x /\ pts[m].x <= pts[n].x}

\* t - 3h <= time <= t
trailing_closed(pts, n) ==
  {m \in 1..Len(pts) : pts[n].x - 3 * 60 * 60 <= pts[m].x /\ pts[m].x <= pts[n].x}

\* C4, as amended: in the saved chart every point of the average download
\* and average upload series is the mean of the series' values before
\* averaging over the samples with t - 3h < time <= t; a sample exactly 3
\* hours older than t is not counted.
C4_window_excludes_3h ==
  plot # << >> =>
    LET down == avg_down(hist)
        up == avg_up(hist)
    IN /\ Len(plot[1].ys6) = Len(down)
       /\ Len(plot[1].ys7) = Len(up)
       /\ \A n \in 1..Len(down) :
            FracEq(plot[1].ys6[n], mean_over(down, trailing_open(down, n)))
       /\ \A n \in 1..Len(up) :
            FracEq(plot[1].ys7[n], mean_over(up, trailing_open(up, n)))

\* C4, as claimed: the same with the window t - 3h <= time <= t, a sample
\* exactly 3 hours older than t being counted.
C4_window_includes_3h ==
  plot # << >> =>
    LET down == avg_down(hist)
        up == avg_up(hist)
    IN /\ \A n \in 1..Len(down) :
            FracEq(plot[1].ys6[n], mean_over(down, trailing_closed(down, n)))
       /\ \A n \in 1..Len(up) :
            FracEq(plot[1].ys7[n], mean_over(up, trailing_closed(up, n)))

\* the chart of download samples 10, 20, 30 at hours 0, 1, 4: 10, 15, 30
C4_witness ==
  /\ plot # << >>
  /\ Len(hist) = 3
  /\ hist[1].timestamp = NOW - 4 * 60 * 60
  /\ hist[2].timestamp = NOW - 3 * 60 * 60
  /\ hist[3].timestamp = NOW
  /\ [i \in 1..3 |-> avg_down(hist)[i].y] = <<Frac(10, 1), Frac(20, 1), Frac(30, 1)>>
  /\ FracEq(plot[1].ys6[1], Frac(10, 1))
  /\ FracEq(plot[1].ys6[2], Frac(15, 1))
  /\ FracEq(plot[1].ys6[3], Frac(30, 1))

-----------------------------------------------------------------------------
(* C5 *)

\* C5: with a loaded record that has M-Lab data and is less than an hour
\* old, the run never invokes ndt7-client and rv gets no mlab entry; with no
\* such record, a run that is past run_mlabndt has invoked it.
C5_mlab_once_an_hour ==
  /\ recent_mlab(loaded, NOW)
       => ("ndt7-client" \notin ran /\ "mlab" \notin DOMAIN rv)
  /\ (~recent_mlab(loaded, NOW) /\ ~args.skip_test
        /\ pc \in {"chromedl", "save", "report", "done"})
       => "ndt7-client" \in ran

\* run_mlabndt has returned without invoking the client
C5_witness ==
  /\ pc = "chromedl"
  /\ recent_mlab(hist, NOW)
  /\ "fast-cli" \in ran
  /\ "ndt7-client" \notin ran

-----------------------------------------------------------------------------
(* C6 *)

\* C6, as amended: a non-zero exit code never aborts the run and never adds
\* data.  On it run_ookla, run_mlabndt and run_chromedl return None and
\* run_speedtests goes on to the next test; run_fastcom gives up that
\* attempt only, tries again while tries remain and returns None after the
\* fifth bad attempt.  rv gains a source only from a process that exited 0,
\* and the record saved is rv: the sources that returned data.
C6_step ==
  /\ pc = "ookla" =>
       (cp'.returncode # 0 => (pc' = "fastcom" /\ rv' = rv))
  /\ pc = "fastcom" =>
       (cp'.returncode # 0 =>
          /\ rv' = rv
          /\ IF tries > 1 THEN pc' = "fastcom" /\ tries' = tries - 1
             ELSE pc' = "mlab")
  /\ (pc = "mlab" /\ "ndt7-client" \in ran') =>
       (cp'.returncode # 0 => (pc' = "chromedl" /\ rv' = rv))
  /\ pc = "chromedl" =>
       (cp'.returncode # 0 => (pc' = "save" /\ rv' = rv))
  /\ rv' # rv =>
       /\ cp'.returncode = 0
       /\ stage_of(cp'.cmd) = pc
       /\ DOMAIN rv' = DOMAIN rv \cup {source_of(cp'.cmd)}
  /\ pc = "save" =>
       /\ pc' = "report"
       /\ IF DOMAIN rv # {}
          THEN /\ Len(db') = Len(db) + 1
               /\ db'[Len(db')].data = rv
               /\ db'[Len(db')].timestamp = NOW
          ELSE db' = db

C6_nonzero_exit_is_skipped == [][C6_step]_vars

\* C6, as claimed: once a test's process has exited non-zero the test is
\* abandoned: control has left it and its source has no data.
C6_nonzero_exit_abandons_test ==
  cp.returncode # 0 =>
    (pc # stage_of(cp.cmd) /\ source_of(cp.cmd) \notin DOMAIN rv)

\* speedtest-cli failed, the three tests after it ran and returned data, and
\* the record of the run holds those three
C6_witness ==
  /\ pc = "done"
  /\ ran = {"speedtest-cli", "fast-cli", "ndt7-client", "curl"}
  /\ DOMAIN rv = {"fastcom", "mlab", "chromedl"}
  /\ Len(db) > 0
  /\ db[Len(db)].timestamp = NOW
  /\ db[Len(db)].data = rv

-----------------------------------------------------------------------------
(* C7 *)

C7_flags ==
  /\ args.force_tweet \/ ~recent_tweet(loaded, NOW, 8 * 60 * 60)
  /\ ~args.only_test
  /\ ~args.dry_run

-----------------------------------------------------------------------------
(* C8 *)

C8_step ==
  pc = "fastcom" =>
    LET good == cp'.returncode = 0 /\ ~has(cp'.stdout, "NaN bps")
        attempt == 5 - tries + 1
    IN /\ attempt \in 1..5
       /\ cp'.cmd = "fast-cli"
       /\ good =>
            /\ pc' # "fastcom"
            /\ pc' = "mlab" =>
                 /\ DOMAIN rv' = DOMAIN rv \cup {"fastcom"}
                 /\ rv'["fastcom"].down = cp'.stdout[1].val
       /\ ~good =>
            /\ rv' = rv
            /\ IF attempt = 5 THEN pc' = "mlab"
               ELSE pc' = "fastcom" /\ tries' = tries - 1

-----------------------------------------------------------------------------
(* C9 *)

\* C9: with --force_tweet never set, any two posted statuses are at least
\* 8 hours apart.
C9_posts_8_hours_apart ==
  \A i, j \in 1..Len(tweets) :
    i < j => tweets[j].at - tweets[i].at >= 8 * 60 * 60

-----------------------------------------------------------------------------
(* C10 *)

\* C10: when a run has ended, a record it wrote with tweeted = true means
\* that the run posted a status.
C10_tweeted_record_was_posted ==
  pc \in {"done", "raised"} =>
    \A i \in 1..Len(db) :
      (db[i].timestamp = NOW /\ db[i].tweeted) => posted

====
